---- MODULE Spec2Model ----
(***************************************************************************)
(* The batch translation orchestrator of App.tsx (startBatchProcess and    *)
(* the handlers that share its state), in its two revisions:              *)
(*   build = 1  src/unnamed/part_001                                       *)
(*   build = 2  src/unnamed/part_002                                       *)
(* React state is a shared store: a functional update setX(prev => ...)    *)
(* reads the latest value, while a plain identifier inside a handler reads *)
(* the value captured when the handler's closure was created.  A run of    *)
(* startBatchProcess is a process; one action is one synchronous segment   *)
(* of code between two awaits.  Text is a sequence of one-character        *)
(* strings, so that trim() is computed and not assumed.                    *)
(* Items are values: the success updater's assignment to next[idx] is a    *)
(* change of the displayed list, and lists that share the item object by   *)
(* reference are not followed.                                             *)
(***************************************************************************)
EXTENDS Integers, Sequences, FiniteSets, TLC

(* ------------------------------ bounds -------------------------------- *)
\* number of times Start is clicked in one behaviour
MaxRuns == 2
\* longest file queue
MaxQueue == 2
\* largest configured batch size (the slider allows 1..1000)
MaxBatch == 2
\* most Gemini keys configured
MaxKeys == 2
\* number of times a Fix button is clicked in one behaviour
MaxRevals == 1
\* most rows of a dropped file
MaxRows == 3

(* ------------------------------ text ---------------------------------- *)
\* the JavaScript value undefined (an absent target, an absent TM entry)
undefined == <<"undefined">>

Falsy(s) == s = undefined \/ s = <<>>

\* the white space and line terminators of the texts modelled
WhiteSpace == {" ", "\n", "\r"}

RECURSIVE TrimLeft(_)
TrimLeft(s) ==
    IF s # <<>> /\ Head(s) \in WhiteSpace THEN TrimLeft(Tail(s)) ELSE s

RECURSIVE TrimRight(_)
TrimRight(s) ==
    IF s # <<>> /\ s[Len(s)] \in WhiteSpace
    THEN TrimRight(SubSeq(s, 1, Len(s) - 1)) ELSE s

\* String.prototype.trim
Trim(s) == TrimRight(TrimLeft(s))

\* the lower case of a symbol: the case folding of the flag i, toLowerCase
ToLower(c) ==
    CASE c = "A" -> "a"
      [] c = "KEY" -> "key"
      [] c = "Source" -> "source"
      [] c = "TARGET" -> "target"
      [] OTHER -> c

(* ------------------------- sequences of items ------------------------- *)
\* Array.prototype.filter: the elements from index k on that keep[.] holds of
RECURSIVE Filter(_, _, _)
Filter(s, keep, k) ==
    IF k > Len(s) THEN <<>>
    ELSE (IF keep[k] THEN <<s[k]>> ELSE <<>>) \o Filter(s, keep, k + 1)

Ids(s) == {s[k].id : k \in 1..Len(s)}

IsComplete(it) == it.status \in {"done", "cached"}

CountComplete(s) == Cardinality({k \in 1..Len(s) : IsComplete(s[k])})

\* Array.prototype.slice(i, i + n), i counted from 0
Slice(s, i, n) == SubSeq(s, i + 1, IF i + n < Len(s) THEN i + n ELSE Len(s))

(* --------------------------- translation memory ----------------------- *)
\* tm[key], undefined when the key is absent
Lookup(m, k) == IF k \in DOMAIN m THEN m[k] ELSE undefined

\* { ...a, ...b }
Spread(a, b) ==
    [k \in (DOMAIN a) \cup (DOMAIN b) |-> IF k \in DOMAIN b THEN b[k] ELSE a[k]]

EmptyTm == [k \in {} |-> <<>>]

(* ------------------------------ input files --------------------------- *)
\* The CSV files a user can drop, as parsed rows below the header
\* (source cell, target cell; undefined when the file has no target column).
FileNames == {"A.csv", "B.csv", "C.csv", "D.csv", "E.csv", "F.csv"}

Rows(name) ==
    CASE name = "A.csv" -> << [source |-> <<"a">>, target |-> undefined],
                              [source |-> <<"a", " ">>, target |-> undefined] >>
      [] name = "B.csv" -> << [source |-> <<"b">>, target |-> <<"z">>] >>
      [] name = "C.csv" -> << [source |-> <<"a">>, target |-> undefined] >>
      [] name = "E.csv" -> << [source |-> <<"a">>, target |-> undefined],
                              [source |-> <<"b">>, target |-> undefined],
                              [source |-> <<"c">>, target |-> undefined] >>
      [] name = "F.csv" -> <<>>
      [] OTHER -> << [source |-> <<"b">>, target |-> undefined] >>

\* the confidence above which part_002 lets reValidateItem write the TM
TM_MIN_CONFIDENCE == 80

\* translation memories a previous session can have persisted
SavedTms == { EmptyTm, [k \in { <<"b">> } |-> <<"y">>] }

\* What the surroundings do in one behaviour: the drops of files the user
\* makes, the translations and confidences a backend answers with, whether
\* the user waits for an invocation to return before clicking Start again,
\* and the other handlers the user triggers.
Sequential ==
    [drops |-> { <<"A.csv">>, <<"B.csv">>, <<"B.csv", "A.csv">>,
                 <<"A.csv", "C.csv">>, <<"E.csv">>, <<"F.csv", "C.csv">> },
     translations |-> { <<>>, <<"x">> }, confidences |-> {90},
     patient |-> FALSE, handlers |-> {}]

Concurrent ==
    [drops |-> { <<"C.csv", "D.csv">> }, translations |-> { <<"x">> },
     confidences |-> {90}, patient |-> FALSE, handlers |-> {}]

Resumed ==
    [drops |-> { <<"E.csv">> }, translations |-> { <<"x">> },
     confidences |-> {90}, patient |-> TRUE, handlers |-> {"retry"}]

Edited ==
    [drops |-> { <<"B.csv", "C.csv">> }, translations |-> { <<"x">> },
     confidences |-> {70, 90}, patient |-> TRUE,
     handlers |-> {"edit", "revalidate"}]

Selected ==
    [drops |-> { <<"C.csv">> }, translations |-> { <<"x">> },
     confidences |-> {90}, patient |-> FALSE, handlers |-> {"select"}]

Managed ==
    [drops |-> { <<"C.csv">>, <<"D.csv">>, <<"C.csv", "D.csv">> },
     translations |-> { <<"x">> }, confidences |-> {90}, patient |-> TRUE,
     handlers |-> {"delete", "move"}]

\* what the user can type into the target cell of a row
Typed == { <<"m">> }

(* ------------------------------ numbers ------------------------------- *)
\* the result of 0 / 0 in a progress computation
NaN == 0 - 1

\* an absent confidence
noConfidence == 0 - 1

\* Math.round((c / n) * 100) for c >= 0, n >= 0
RoundPercent(c, n) == IF n = 0 THEN NaN ELSE (200 * c + n) \div (2 * n)

(* ------------------------------ state --------------------------------- *)
VARIABLES
    build,            \* 1: part_001, 2: part_002
    serviceType,      \* "gemini" | "deepl"
    nKeys,            \* geminiKeys.length
    deepLKey,         \* whether deepLKeyInput is non-empty
    batchSize,
    fileQueue,        \* sequence of FileEntry
    currentItems,     \* the displayed item list
    currentFileIndex,
    isProcessing,
    tm,               \* the React state tm
    storedTm,         \* localStorage 'linguist_tm'
    errors,           \* eventStats.errors
    errorMsg,         \* whether an error banner is shown
    shouldStop,       \* shouldStopRef.current
    activeKeyIndex,   \* activeKeyIndexRef.current
    fileResults,      \* fileResultsRef.current: name -> items
    runs,             \* the invocations of startBatchProcess
    revals,           \* the invocations of reValidateItem
    scenario,         \* what the surroundings do
    deepl,            \* an invocation of DeepLTranslator.translateBatch
    csv               \* a CSV text on its way through parseCSV and back

\* what no handler of the orchestrator assigns
config == <<build, serviceType, nKeys, deepLKey, batchSize, scenario, deepl,
            csv>>

\* the state of the orchestrator
app == <<build, serviceType, nKeys, deepLKey, batchSize, fileQueue,
         currentItems, currentFileIndex, isProcessing, tm, storedTm, errors,
         errorMsg, shouldStop, activeKeyIndex, fileResults, runs, revals,
         scenario>>

vars == <<app, deepl, csv>>

\* no invocation of translateBatch is looked at
NoCall == [pc |-> "none"]

\* no CSV text is looked at
NoText == [pc |-> "none"]

RunIds == DOMAIN runs

RevalIds == DOMAIN revals

\* An invocation before it is started.  q, tempTm and items0 are the values
\* the closure captured.  tried (the keys used since the last success or
\* cooldown), stopRequested (Stop was clicked during the invocation),
\* doneAtStop (the items displayed done or cached at that click) and
\* settled (the invocation opened a file whose items were all done or
\* cached) record history only: no segment reads them.
IdleRun ==
    [pc |-> "idle", fIdx |-> 0, items |-> <<>>, pending |-> <<>>, i |-> 0,
     completedInFile |-> 0, tempTm |-> EmptyTm, q |-> <<>>, items0 |-> <<>>,
     consecutiveRateLimits |-> 0, key |-> 0,
     tried |-> {}, stopRequested |-> FALSE, doneAtStop |-> {},
     settled |-> FALSE]

\* the mutable store together with the local variables of one invocation
Store(r) ==
    [fileQueue |-> fileQueue, currentItems |-> currentItems,
     currentFileIndex |-> currentFileIndex, isProcessing |-> isProcessing,
     tm |-> tm, storedTm |-> storedTm, errors |-> errors, errorMsg |-> errorMsg,
     shouldStop |-> shouldStop, activeKeyIndex |-> activeKeyIndex,
     fileResults |-> fileResults, r |-> r]

Commit(s, id) ==
    /\ fileQueue' = s.fileQueue
    /\ currentItems' = s.currentItems
    /\ currentFileIndex' = s.currentFileIndex
    /\ isProcessing' = s.isProcessing
    /\ tm' = s.tm
    /\ storedTm' = s.storedTm
    /\ errors' = s.errors
    /\ errorMsg' = s.errorMsg
    /\ shouldStop' = s.shouldStop
    /\ activeKeyIndex' = s.activeKeyIndex
    /\ fileResults' = s.fileResults
    /\ runs' = [runs EXCEPT ![id] = s.r]
    /\ UNCHANGED <<config, revals>>

(* ------------------------------ parseCSV ------------------------------ *)
\* text.replace(/\r\n/g, '\n').replace(/\r/g, '\n')
RECURSIVE CleanText(_)
CleanText(text) ==
    IF text = <<>> THEN <<>>
    ELSE IF Head(text) = "\r"
    THEN <<"\n">> \o CleanText(IF Len(text) > 1 /\ text[2] = "\n"
                                THEN Tail(Tail(text)) ELSE Tail(text))
    ELSE <<Head(text)>> \o CleanText(Tail(text))

\* the loop of parseCSV from character i (counted from 1) on, st holding
\* rows, currentRow, currentCell and inQuotes
RECURSIVE Scan(_, _, _)
Scan(cleanText, i, st) ==
    IF i > Len(cleanText) THEN st
    ELSE LET char == cleanText[i]
             nextIsQuote == i < Len(cleanText) /\ cleanText[i + 1] = "\""
         IN IF st.inQuotes
            THEN IF char = "\""
                 THEN IF nextIsQuote
                      THEN Scan(cleanText, i + 2,
                                [st EXCEPT !.currentCell = @ \o <<"\"">>])
                      ELSE Scan(cleanText, i + 1, [st EXCEPT !.inQuotes = FALSE])
                 ELSE Scan(cleanText, i + 1,
                           [st EXCEPT !.currentCell = @ \o <<char>>])
            ELSE IF char = "\""
                 THEN Scan(cleanText, i + 1, [st EXCEPT !.inQuotes = TRUE])
                 ELSE IF char = ","
                 THEN Scan(cleanText, i + 1,
                           [st EXCEPT !.currentRow = Append(@, st.currentCell),
                                      !.currentCell = <<>>])
                 ELSE IF char = "\n"
                 THEN Scan(cleanText, i + 1,
                           [st EXCEPT
                              !.rows = Append(@, Append(st.currentRow,
                                                        st.currentCell)),
                              !.currentRow = <<>>, !.currentCell = <<>>])
                 ELSE Scan(cleanText, i + 1,
                           [st EXCEPT !.currentCell = @ \o <<char>>])

parseCSV(text) ==
    LET st == Scan(CleanText(text), 1,
                   [rows |-> <<>>, currentRow |-> <<>>, currentCell |-> <<>>,
                    inQuotes |-> FALSE])
    IN IF st.currentCell # <<>> \/ Len(st.currentRow) > 0
       THEN Append(st.rows, Append(st.currentRow, st.currentCell))
       ELSE st.rows

(* ------------------- reader.onload of processFileMetadata ------------- *)
\* the items made of the parsed rows of the file called fileName
ReadItems(rows, fileName) ==
    IF Len(rows) = 0 THEN <<>>
    ELSE LET header == rows[1]
             \* h.trim().toLowerCase()
             Name(h) == [k \in 1..Len(Trim(h)) |-> ToLower(Trim(h)[k])]
             \* header.findIndex(h => ... === name), -1 when absent
             Index(name) ==
                LET at == {k \in 1..Len(header) : Name(header[k]) = <<name>>}
                IN IF at = {} THEN 0 - 1
                   ELSE (CHOOSE k \in at : \A j \in at : k <= j) - 1
             \* cols[idx]?.trim()
             CellAt(cols, idx) ==
                IF idx + 1 \in 1..Len(cols) THEN Trim(cols[idx + 1])
                ELSE undefined
             keyIdx == Index("key")
             sourceIdx == Index("source")
             targetIdx == Index("target")
             Item(i) ==
                LET cols == rows[i + 1]
                    source == IF sourceIdx # 0 - 1 THEN CellAt(cols, sourceIdx)
                              ELSE <<>>
                    rawKey == IF keyIdx # 0 - 1 THEN CellAt(cols, keyIdx) ELSE <<>>
                    target == IF targetIdx # 0 - 1 THEN CellAt(cols, targetIdx)
                              ELSE undefined
                IN [id |-> i,
                    key |-> IF Falsy(rawKey) THEN <<"row_" \o ToString(i)>>
                            ELSE rawKey,
                    fileName |-> fileName, source |-> source, target |-> target,
                    status |-> IF build = 1 /\ ~Falsy(target) THEN "done"
                               ELSE "pending",
                    confidence |-> noConfidence, isEdited |-> FALSE]
             all == [i \in 1..(Len(rows) - 1) |-> Item(i)]
             Kept(i) ==
                /\ ~(Len(rows[i + 1]) = 1 /\ Falsy(Trim(rows[i + 1][1])))
                /\ ~Falsy(all[i].source)
         IN Filter(all, [i \in 1..Len(all) |-> Kept(i)], 1)

(* --------------------------- processFileMetadata ---------------------- *)
\* The items of a freshly read file: one per row with a non-empty trimmed
\* source, id = row number.  part_001 creates an item 'done' when the row
\* carries a target, part_002 always 'pending'.
Materialize(name) ==
    LET rows == Rows(name)
        hasTarget == \E k \in 1..Len(rows) : rows[k].target # undefined
        header == IF hasTarget THEN << <<"source">>, <<"target">> >>
                  ELSE << <<"source">> >>
        cells == [k \in 1..Len(rows) |->
                    IF hasTarget THEN <<rows[k].source, rows[k].target>>
                    ELSE <<rows[k].source>>]
    IN ReadItems(<<header>> \o cells, name)

processFileMetadata(s, fileEntry) ==
    IF fileEntry.name \in DOMAIN s.fileResults
    THEN s.fileResults[fileEntry.name]
    ELSE Materialize(fileEntry.name)

(* ----------------------------- store updates -------------------------- *)
\* setFileQueue(prev => prev.map((f, i) => i === idx ? { ...f, ...fields } : f))
MapFileAt(queue, idx, fields) ==
    [k \in 1..Len(queue) |->
        IF k = idx + 1
        THEN [x \in DOMAIN queue[k] |->
                 IF x \in DOMAIN fields THEN fields[x] ELSE queue[k][x]]
        ELSE queue[k]]

\* setCurrentItems(prev => prev.map(item => ids.includes(item.id) ? {...item, status} : item))
MarkStatus(items, ids, status) ==
    [k \in 1..Len(items) |->
        IF items[k].id \in ids THEN [items[k] EXCEPT !.status = status]
        ELSE items[k]]

\* fileResultsRef.current[name] = items
PutResults(results, name, items) ==
    [n \in (DOMAIN results) \cup {name} |-> IF n = name THEN items ELSE results[n]]

\* next.findIndex(item => item.id === id), 0 when there is none
FindIndex(items, id) ==
    IF id \in Ids(items) THEN CHOOSE k \in 1..Len(items) :
        /\ items[k].id = id
        /\ \A j \in 1..(k - 1) : items[j].id # id
    ELSE 0

\* results.forEach(res => { ... next[idx] = done ... }) over the displayed list
RECURSIVE MergeResults(_, _, _, _)
MergeResults(items, batch, resp, k) ==
    IF k > Len(batch) THEN items
    ELSE LET idx == FindIndex(items, batch[k].id)
             merged == IF idx = 0 THEN items
                       ELSE [items EXCEPT ![idx] =
                               [@ EXCEPT !.target = resp.translations[k],
                                         !.status = "done",
                                         !.confidence = resp.confidence]]
         IN MergeResults(merged, batch, resp, k + 1)

\* newEntries[next[idx].source.trim()] = res.translation, in result order
RECURSIVE NewEntries(_, _, _, _)
NewEntries(items, batch, resp, k) ==
    IF k > Len(batch) THEN EmptyTm
    ELSE LET idx == FindIndex(items, batch[k].id)
             rest == NewEntries(items, batch, resp, k + 1)
             key == Trim(items[idx].source)
         IN IF idx = 0 THEN rest
            ELSE IF key \in DOMAIN rest THEN rest
            ELSE Spread([x \in {key} |-> resp.translations[k]], rest)

(* ---------------------------- startBatchProcess ----------------------- *)
\* the batch the inner loop is at: pending.slice(i, i + batchSize)
Batch(r) == Slice(r.pending, r.i, batchSize)

\* the name the closure reads: fileQueue[fIdx].name
FileName(r) == r.q[r.fIdx + 1].name

\* setIsProcessing(false) after the outer loop
EndRun(s) ==
    [s EXCEPT !.isProcessing = FALSE,
              !.shouldStop = IF build = 2 THEN FALSE ELSE @,
              !.r = [IdleRun EXCEPT !.pc = "done",
                                    !.stopRequested = s.r.stopRequested,
                                    !.doneAtStop = s.r.doneAtStop,
                                    !.settled = s.r.settled]]

\* The outer loop from index f: leave on a stop request, skip the files the
\* captured queue shows 'done', and await processFileMetadata of the next.
NextFile(s, f) ==
    LET open == {k \in f..(Len(s.r.q) - 1) : s.r.q[k + 1].status # "done"}
    IN IF s.shouldStop \/ open = {} THEN EndRun(s)
       ELSE LET k == CHOOSE x \in open : \A y \in open : x <= y
            IN [s EXCEPT !.r.pc = "meta", !.r.fIdx = k,
                         !.r.items = processFileMetadata(s, s.r.q[k + 1]),
                         !.r.pending = <<>>, !.r.i = 0, !.r.completedInFile = 0]

\* After the last batch of a file: the file's final status, and the TM saved.
FinishFile(s) ==
    LET name == FileName(s.r)
        final == IF name \in DOMAIN s.fileResults THEN s.fileResults[name] ELSE <<>>
        isComplete == \A k \in 1..Len(final) : IsComplete(final[k])
        hasErrors == \E k \in 1..Len(final) : final[k].status \in {"failed", "processing"}
        done == CountComplete(final)
        Final1 == [status |-> IF isComplete THEN "done" ELSE "error"]
        Final2 == [status |-> IF hasErrors THEN "error"
                              ELSE IF isComplete THEN "done" ELSE "pending",
                   progress |-> RoundPercent(done, IF Len(final) = 0 THEN 1 ELSE Len(final)),
                   completedItems |-> done]
        queue == IF build = 1 THEN MapFileAt(s.fileQueue, s.r.fIdx, Final1)
                 ELSE MapFileAt(s.fileQueue, s.r.fIdx, Final2)
    IN [s EXCEPT !.fileQueue = queue, !.tm = s.r.tempTm, !.storedTm = s.r.tempTm]

\* leaving the inner loop, were the run to return at a file without items
AfterBatchesOrReturn(s) ==
    IF (build = 2 /\ s.shouldStop) \/ s.r.items = <<>> THEN EndRun(s)
    ELSE NextFile(FinishFile(s), s.r.fIdx + 1)

\* Leaving the inner loop.  part_002 leaves the run without finishing the
\* file when a stop was requested; part_001 always finishes the file.
AfterBatches(s) ==
    IF build = 2 /\ s.shouldStop THEN EndRun(s)
    ELSE NextFile(FinishFile(s), s.r.fIdx + 1)

\* The key of the next call: geminiKeys[activeKeyIndexRef.current % length]
CurrentKey(s) == IF nKeys = 0 THEN 0 ELSE s.activeKeyIndex % nKeys

\* One pass of the inner loop up to the await of translateBatch.
Dispatch(s) ==
    LET key == CurrentKey(s)
    IN [s EXCEPT !.currentItems = MarkStatus(@, Ids(Batch(s.r)), "processing"),
                 !.r.pc = "call", !.r.key = key,
                 !.r.tried = @ \cup {key}]

\* The head of the inner loop: for (...; i < pending.length; ...) { if (stop) break; ...
BatchLoop(s) ==
    IF s.r.i < Len(s.r.pending) /\ ~s.shouldStop THEN Dispatch(s)
    ELSE AfterBatches(s)

\* updatedWithCache with the cached translation left out of the item
updatedWithCacheNoTarget(items, tempTm) ==
    [k \in 1..Len(items) |->
        IF IsComplete(items[k]) THEN items[k]
        ELSE LET cached == Lookup(tempTm, Trim(items[k].source))
             IN IF ~Falsy(cached)
                THEN [items[k] EXCEPT !.status = "cached", !.confidence = 100]
                ELSE items[k]]

\* items.map(item => ...) against the run's TM copy
updatedWithCache(items, tempTm) ==
    [k \in 1..Len(items) |->
        IF IsComplete(items[k]) THEN items[k]
        ELSE LET cached == Lookup(tempTm, Trim(items[k].source))
             IN IF ~Falsy(cached)
                THEN [items[k] EXCEPT !.target = cached, !.status = "cached",
                                      !.confidence = 100]
                ELSE items[k]]

\* the items left for the backend, were the done items left for it as well
IsPendingOrDone(it) == it.status # "cached"

\* the items left for the backend
IsPending(it) ==
    IF build = 1 THEN it.status \in {"pending", "failed"}
    ELSE it.status \in {"pending", "failed"} \/ ~IsComplete(it)

\* The segment after `await processFileMetadata`: show the file, serve what
\* the TM knows, and enter the inner loop.
BeginFile(s) ==
    LET items == s.r.items
        cache == updatedWithCache(items, s.r.tempTm)
        completed == CountComplete(cache)
        Open1 == [status |-> "processing", totalItems |-> Len(items),
                  completedItems |-> CountComplete(items)]
        Open2 == [status |-> "processing", totalItems |-> Len(items),
                  progress |-> RoundPercent(completed, Len(items)),
                  completedItems |-> completed]
        queue == IF build = 1 THEN MapFileAt(s.fileQueue, s.r.fIdx, Open1)
                 ELSE MapFileAt(s.fileQueue, s.r.fIdx, Open2)
    IN BatchLoop([s EXCEPT !.currentFileIndex = s.r.fIdx,
                           !.fileQueue = queue,
                           !.currentItems = cache,
                           !.r.completedInFile = completed,
                           !.r.settled =
                               @ \/ (/\ items # <<>>
                                     /\ \A k \in 1..Len(items) : IsComplete(items[k])),
                           !.r.pending =
                               Filter(cache, [k \in 1..Len(cache) |->
                                                 IsPending(cache[k])], 1),
                           !.r.i = 0])

\* The try block after translateBatch resolved.
OnSuccess(s, resp) ==
    LET batch == Batch(s.r)
        next == MergeResults(s.currentItems, batch, resp, 1)
        newEntries == NewEntries(s.currentItems, batch, resp, 1)
        completed == s.r.completedInFile + Len(batch)
        Progress == [progress |-> RoundPercent(completed, Len(s.r.items)),
                     completedItems |-> completed]
        stored == IF build = 1 THEN next ELSE s.r.items0
    IN [s EXCEPT !.currentItems = next,
                 !.fileResults = PutResults(@, FileName(s.r), stored),
                 !.fileQueue = MapFileAt(@, s.r.fIdx, Progress),
                 !.r.tempTm = Spread(@, newEntries),
                 !.r.completedInFile = completed,
                 !.r.consecutiveRateLimits = 0,
                 !.r.tried = {},
                 !.r.pc = "delay", !.r.key = 0]

\* The catch block's last branch: the batch is marked failed.
OnFailure(s) ==
    [s EXCEPT !.currentItems = MarkStatus(@, Ids(Batch(s.r)), "failed"),
              !.errors = @ + 1,
              !.r.pc = "delay", !.r.key = 0]

\* activeKeyIndexRef.current = (activeKeyIndexRef.current + 1) % geminiKeys.length,
\* then `i -= batchSize; continue`
Rotate(s) ==
    BatchLoop([s EXCEPT !.activeKeyIndex = (@ + 1) % nKeys])

\* setCooldown(65) and the await of the cooldown timer
EnterCooldown(s) ==
    [s EXCEPT !.errorMsg = IF build = 2 THEN TRUE ELSE @,
              !.r.pc = "cooldown", !.r.key = 0]

\* The catch block for err.message === 'RATE_LIMIT'.
OnRateLimit(s) ==
    IF serviceType = "gemini"
    THEN IF build = 1
         THEN IF nKeys > 1 THEN Rotate(s) ELSE EnterCooldown(s)
         ELSE LET t == [s EXCEPT !.r.consecutiveRateLimits = @ + 1]
              IN IF t.r.consecutiveRateLimits < nKeys THEN Rotate(t)
                 ELSE EnterCooldown(t)
    ELSE IF build = 1 THEN OnFailure(s) ELSE EnterCooldown(s)

\* The segment after `await translateBatch`, by what the call answered.
AfterCall(s, resp) ==
    CASE resp.kind = "ok" -> OnSuccess(s, resp)
      [] resp.kind = "rate" -> OnRateLimit(s)
      [] OTHER -> OnFailure(s)

\* The segment after the cooldown timer: retry the same batch.
AfterCooldown(s) ==
    BatchLoop([s EXCEPT !.errorMsg = IF build = 2 THEN FALSE ELSE @,
                        !.r.consecutiveRateLimits = 0,
                        !.r.tried = {}])

\* The segment after the delay that follows a merged or a failed batch.
AfterDelay(s) ==
    LET t == IF build = 2
             THEN [s EXCEPT !.fileResults = PutResults(@, FileName(s.r), s.currentItems)]
             ELSE s
    IN BatchLoop([t EXCEPT !.r.i = @ + batchSize])

(* ------------------------------- actions ------------------------------ *)
\* MAX_FILES of part_002
MAX_FILES == 50

\* Files are dropped: one FileEntry per file is appended to the queue.
addFilesToQueue(files) ==
    /\ Len(fileQueue) + Len(files) <= MaxQueue
    /\ build = 2 => Len(fileQueue) + Len(files) <= MAX_FILES
    /\ fileQueue' = fileQueue \o
          [k \in 1..Len(files) |->
              [name |-> files[k], status |-> "pending", progress |-> 0,
               totalItems |-> IF build = 1 THEN Len(Rows(files[k])) ELSE 0,
               completedItems |-> 0]]
    /\ errorMsg' = IF build = 2 THEN FALSE ELSE errorMsg
    /\ UNCHANGED <<config, currentItems, currentFileIndex, isProcessing, tm,
                   storedTm, errors, shouldStop, activeKeyIndex, fileResults, runs,
                   revals>>

\* what a run reads of the queue its closure captured: names and statuses
Captured(queue) ==
    [k \in 1..Len(queue) |-> [name |-> queue[k].name, status |-> queue[k].status]]

\* whether the selected service has no credential
KeyMissing == IF serviceType = "gemini" THEN nKeys = 0 ELSE ~deepLKey

\* The Start button.  part_002 refuses to start without a credential.
startBatchProcess(id) ==
    /\ runs[id].pc = "idle"
    /\ \A j \in RunIds : j < id => runs[j].pc # "idle"
    /\ scenario.patient => \A j \in RunIds : runs[j].pc \in {"idle", "done"}
    /\ Len(fileQueue) # 0 /\ ~isProcessing
    /\ IF build = 2 /\ KeyMissing
       THEN /\ errorMsg' = TRUE
            /\ runs' = [runs EXCEPT ![id].pc = "done"]
            /\ UNCHANGED <<config, fileQueue, currentItems, currentFileIndex,
                           isProcessing, tm, storedTm, errors, shouldStop,
                           activeKeyIndex, fileResults, revals>>
       ELSE LET r == [IdleRun EXCEPT !.tempTm = tm, !.q = Captured(fileQueue),
                                     !.items0 = IF build = 2 THEN currentItems ELSE <<>>]
                s == [Store(r) EXCEPT !.shouldStop = FALSE, !.isProcessing = TRUE,
                                      !.errorMsg = FALSE]
            IN Commit(NextFile(s, 0), id)

\* the items of a list that are done or cached, by file name and id
Complete(items) ==
    {<<items[k].fileName, items[k].id>> : k \in {j \in 1..Len(items) : IsComplete(items[j])}}

\* The Stop button, shown while isProcessing.
stopProcessing ==
    /\ isProcessing
    /\ shouldStop' = TRUE
    /\ isProcessing' = FALSE
    /\ runs' = [id \in RunIds |->
                  IF runs[id].pc \in {"idle", "done"} THEN runs[id]
                  ELSE [runs[id] EXCEPT !.stopRequested = TRUE,
                                        !.doneAtStop = Complete(currentItems)]]
    /\ UNCHANGED <<config, fileQueue, currentItems, currentFileIndex, tm, storedTm,
                   errors, errorMsg, activeKeyIndex, fileResults, revals>>

\* The retry button of queue entry index: the file and its failed or
\* untranslated items are pending again.  part_002 renders the button for
\* the statuses done, error and pending.
handleRetryFile(index) ==
    /\ "retry" \in scenario.handlers
    /\ index \in 0..(Len(fileQueue) - 1)
    /\ build = 2 => fileQueue[index + 1].status \in {"done", "error", "pending"}
    /\ ~isProcessing
    /\ LET fileName == fileQueue[index + 1].name
           old == fileResults[fileName]
           reset == [k \in 1..Len(old) |->
                       IF old[k].status = "failed" \/ Falsy(old[k].target)
                       THEN [old[k] EXCEPT !.status = "pending"]
                       ELSE old[k]]
       IN /\ fileQueue' = MapFileAt(fileQueue, index, [status |-> "pending"])
          /\ IF fileName \in DOMAIN fileResults
             THEN /\ fileResults' = PutResults(fileResults, fileName, reset)
                  /\ currentItems' = IF index = currentFileIndex THEN reset
                                     ELSE currentItems
             ELSE UNCHANGED <<fileResults, currentItems>>
    /\ UNCHANGED <<config, currentFileIndex, isProcessing, tm, storedTm, errors,
                   errorMsg, shouldStop, activeKeyIndex, runs, revals>>

\* A click on queue entry idx: the entry is selected and its items are
\* displayed, the stored ones where the file has any.
onClickFile(idx) ==
    /\ "select" \in scenario.handlers
    /\ idx \in 0..(Len(fileQueue) - 1)
    /\ ~isProcessing
    /\ currentFileIndex' = idx
    /\ currentItems' = processFileMetadata([fileResults |-> fileResults],
                                           fileQueue[idx + 1])
    /\ UNCHANGED <<config, fileQueue, isProcessing, tm, storedTm, errors,
                   errorMsg, shouldStop, activeKeyIndex, fileResults, runs,
                   revals>>

\* The delete button of queue entry index, clicked while a run is in
\* progress: the entry and its stored results are removed.
deleteFile(index) ==
    /\ "delete" \in scenario.handlers
    /\ isProcessing
    /\ index \in 0..(Len(fileQueue) - 1)
    /\ index # currentFileIndex
    /\ fileResults' = [n \in DOMAIN fileResults \ {fileQueue[index + 1].name} |->
                          fileResults[n]]
    /\ fileQueue' = [k \in 1..(Len(fileQueue) - 1) |->
                       IF k <= index THEN fileQueue[k] ELSE fileQueue[k + 1]]
    /\ currentFileIndex' = IF index < currentFileIndex THEN currentFileIndex - 1
                           ELSE currentFileIndex
    /\ UNCHANGED <<config, currentItems, isProcessing, tm, storedTm, errors,
                   errorMsg, shouldStop, activeKeyIndex, runs, revals>>

\* The move buttons of queue entry index of part_002, clicked while a run
\* is in progress: the entry changes place with its neighbour.
moveFile(index, direction) ==
    /\ "move" \in scenario.handlers
    /\ build = 2
    /\ isProcessing
    /\ index \in 0..(Len(fileQueue) - 1)
    /\ index + direction \in 0..(Len(fileQueue) - 1)
    /\ LET targetIndex == index + direction
       IN /\ fileQueue' = [fileQueue EXCEPT ![index + 1] = fileQueue[targetIndex + 1],
                                            ![targetIndex + 1] = fileQueue[index + 1]]
          /\ currentFileIndex' = IF currentFileIndex = index THEN targetIndex
                                 ELSE IF currentFileIndex = targetIndex THEN index
                                 ELSE currentFileIndex
    /\ UNCHANGED <<config, currentItems, isProcessing, tm, storedTm, errors,
                   errorMsg, shouldStop, activeKeyIndex, fileResults, runs,
                   revals>>

\* the name of the file the handlers of the current render act on:
\* fileQueue[currentFileIndex].name, undefined when there is none
ShownFile ==
    IF currentFileIndex >= 0 /\ currentFileIndex < Len(fileQueue)
    THEN fileQueue[currentFileIndex + 1].name
    ELSE "undefined"

\* items.map(item => item.id === id ? { ...item, ...fields } : item)
MapItem(items, id, fields) ==
    [k \in 1..Len(items) |->
        IF items[k].id = id
        THEN [x \in DOMAIN items[k] |->
                 IF x \in DOMAIN fields THEN fields[x] ELSE items[k][x]]
        ELSE items[k]]

\* whether the target cell of the displayed row id is rendered as a text box
Editable(id) ==
    /\ FindIndex(currentItems, id) # 0
    /\ currentItems[FindIndex(currentItems, id)].target # undefined

\* The user types newTarget into the target cell of row id.
handleManualEdit(id, newTarget) ==
    /\ "edit" \in scenario.handlers
    /\ Editable(id)
    /\ LET edit == [target |-> newTarget, isEdited |-> TRUE]
       IN /\ currentItems' = MapItem(currentItems, id, edit)
          /\ fileResults' =
                IF ShownFile \in DOMAIN fileResults
                THEN PutResults(fileResults, ShownFile,
                                MapItem(fileResults[ShownFile], id, edit))
                ELSE fileResults
    /\ UNCHANGED <<config, fileQueue, currentFileIndex, isProcessing, tm, storedTm,
                   errors, errorMsg, shouldStop, activeKeyIndex, runs, revals>>

\* An invocation of reValidateItem before it is started; item, name and tm
\* are the values its closure captured, wrote the sources it has written to
\* the persisted TM.
IdleReval ==
    [pc |-> "idle", item |-> [id |-> 0], name |-> "undefined", tm |-> EmptyTm,
     wrote |-> {}]

\* The Fix button of row id, up to the await of translateBatch([item]).
\* part_002 renders the button for edited rows and returns without a key.
reValidateItem(v, id) ==
    /\ "revalidate" \in scenario.handlers
    /\ revals[v].pc = "idle"
    /\ \A w \in RevalIds : w < v => revals[w].pc # "idle"
    /\ Editable(id)
    /\ build = 2 => /\ currentItems[FindIndex(currentItems, id)].isEdited
                    /\ ~KeyMissing
    /\ currentItems' = MapItem(currentItems, id, [status |-> "processing"])
    /\ revals' = [revals EXCEPT ![v] =
                    [pc |-> "call",
                     item |-> currentItems[FindIndex(currentItems, id)],
                     name |-> ShownFile, tm |-> tm, wrote |-> {}]]
    /\ UNCHANGED <<config, fileQueue, currentFileIndex, isProcessing, tm, storedTm,
                   errors, errorMsg, shouldStop, activeKeyIndex, fileResults, runs>>

\* what a backend can answer to a call
Answers ==
    IF KeyMissing THEN {"missing"}
    ELSE IF serviceType = "gemini" THEN {"ok", "rate", "auth", "transport"}
    ELSE {"ok", "rate", "quota", "auth", "transport"}

MetaResolved(id) ==
    /\ runs[id].pc = "meta"
    /\ Commit(BeginFile(Store(runs[id])), id)

\* translateBatch settles with a result per item of the batch or with an
\* error, and the segment after the await runs.
CallReturned(id, kind, translations, confidence) ==
    /\ runs[id].pc = "call"
    /\ kind \in Answers
    /\ IF kind = "ok"
       THEN Len(translations) = Len(Batch(runs[id]))
       ELSE translations = <<>>
    /\ Commit(AfterCall(Store(runs[id]),
                        [kind |-> kind, translations |-> translations,
                         confidence |-> confidence]), id)

DelayElapsed(id) ==
    /\ runs[id].pc = "delay"
    /\ Commit(AfterDelay(Store(runs[id])), id)

CooldownElapsed(id) ==
    /\ runs[id].pc = "cooldown"
    /\ Commit(AfterCooldown(Store(runs[id])), id)

\* translateBatch([item]) settles and the rest of reValidateItem runs.
RevalReturned(v, kind, translation, confidence) ==
    /\ revals[v].pc = "call"
    /\ kind \in Answers
    /\ revals' = [revals EXCEPT ![v] =
                    [IdleReval EXCEPT
                        !.pc = "done",
                        !.wrote = IF /\ kind = "ok"
                                     /\ build = 1 \/ confidence > TM_MIN_CONFIDENCE
                                  THEN {Trim(revals[v].item.source)}
                                  ELSE {}]]
    /\ LET r == revals[v]
           id == r.item.id
       IN IF kind = "ok"
          THEN LET updated == MapItem(currentItems, id,
                                 [target |-> translation, status |-> "done",
                                  confidence |-> confidence, isEdited |-> FALSE])
                   newTm == Spread(r.tm, [x \in {Trim(r.item.source)} |-> translation])
                   cache == build = 1 \/ confidence > TM_MIN_CONFIDENCE
               IN /\ currentItems' = updated
                  /\ fileResults' = IF r.name = "undefined" THEN fileResults
                                    ELSE PutResults(fileResults, r.name, updated)
                  /\ tm' = IF cache THEN newTm ELSE tm
                  /\ storedTm' = IF cache THEN newTm ELSE storedTm
                  /\ UNCHANGED <<activeKeyIndex, errorMsg>>
          ELSE /\ currentItems' = MapItem(currentItems, id, [status |-> "failed"])
               /\ activeKeyIndex' =
                     IF build = 2 /\ kind = "rate" /\ serviceType = "gemini"
                     THEN (activeKeyIndex + 1) % nKeys ELSE activeKeyIndex
               /\ errorMsg' = IF build = 2 THEN TRUE ELSE errorMsg
               /\ UNCHANGED <<fileResults, tm, storedTm>>
    /\ UNCHANGED <<config, fileQueue, currentFileIndex, isProcessing, errors,
                   shouldStop, runs>>

\* confidence a backend can answer with
Confidences == scenario.confidences

\* the results a backend can give for a batch of up to MaxBatch items
ResultSeqs == UNION {[1..n -> scenario.translations] : n \in 0..MaxBatch}

\* the store after the component is mounted
Mounted ==
    /\ fileQueue = <<>>
    /\ currentItems = <<>>
    /\ currentFileIndex = 0 - 1
    /\ isProcessing = FALSE
    /\ storedTm = tm
    /\ errors = 0
    /\ errorMsg = FALSE
    /\ shouldStop = FALSE
    /\ activeKeyIndex = 0
    /\ fileResults = [n \in {} |-> <<>>]

\* The state after the component is constructed, for every configuration.
\* Start is clicked once where the surroundings are Sequential, Edited or
\* Managed and up to MaxRuns times where they are Concurrent, Resumed or
\* Selected; Fix is clicked up to MaxRevals times where they are Edited.
Init ==
    /\ \/ /\ scenario = Sequential
          /\ runs = [id \in 1..1 |-> IdleRun]
          /\ revals = [v \in {} |-> IdleReval]
          /\ build \in {1, 2}
          /\ serviceType \in {"gemini", "deepl"}
          /\ nKeys \in IF serviceType = "gemini" THEN 0..MaxKeys ELSE {0}
          /\ deepLKey \in IF serviceType = "deepl" THEN BOOLEAN ELSE {FALSE}
          /\ batchSize \in 1..MaxBatch
          /\ tm \in SavedTms
       \/ /\ scenario = Concurrent
          /\ runs = [id \in 1..MaxRuns |-> IdleRun]
          /\ revals = [v \in {} |-> IdleReval]
          /\ build \in {1, 2}
          /\ serviceType = "gemini"
          /\ nKeys = MaxKeys
          /\ deepLKey = FALSE
          /\ batchSize = 1
          /\ tm = EmptyTm
       \/ /\ scenario = Resumed
          /\ runs = [id \in 1..MaxRuns |-> IdleRun]
          /\ revals = [v \in {} |-> IdleReval]
          /\ build \in {1, 2}
          /\ serviceType = "gemini"
          /\ nKeys = 1
          /\ deepLKey = FALSE
          /\ batchSize \in 1..MaxBatch
          /\ tm \in SavedTms
       \/ /\ scenario = Edited
          /\ runs = [id \in 1..1 |-> IdleRun]
          /\ revals = [v \in 1..MaxRevals |-> IdleReval]
          /\ build \in {1, 2}
          /\ serviceType = "gemini"
          /\ nKeys = 1
          /\ deepLKey = FALSE
          /\ batchSize = 1
          /\ tm = EmptyTm
       \/ /\ scenario = Managed
          /\ runs = [id \in 1..1 |-> IdleRun]
          /\ revals = [v \in {} |-> IdleReval]
          /\ build \in {1, 2}
          /\ serviceType = "gemini"
          /\ nKeys = 1
          /\ deepLKey = FALSE
          /\ batchSize = 1
          /\ tm = EmptyTm
       \/ /\ scenario = Selected
          /\ runs = [id \in 1..MaxRuns |-> IdleRun]
          /\ revals = [v \in {} |-> IdleReval]
          /\ build \in {1, 2}
          /\ serviceType = "gemini"
          /\ nKeys = 1
          /\ deepLKey = FALSE
          /\ batchSize = 1
          /\ tm = EmptyTm
    /\ Mounted
    /\ deepl = NoCall
    /\ csv = NoText

Next ==
    \/ \E files \in scenario.drops : addFilesToQueue(files)
    \/ \E id \in RunIds : startBatchProcess(id)
    \/ stopProcessing
    \/ \E index \in 0..(MaxQueue - 1) : handleRetryFile(index)
    \/ \E idx \in 0..(MaxQueue - 1) : onClickFile(idx)
    \/ \E index \in 0..(MaxQueue - 1) : deleteFile(index)
    \/ \E index \in 0..(MaxQueue - 1), direction \in {0 - 1, 1} :
          moveFile(index, direction)
    \/ \E id \in RunIds : MetaResolved(id)
    \/ \E id \in RunIds, kind \in Answers, translations \in ResultSeqs,
          confidence \in Confidences :
             CallReturned(id, kind, translations, confidence)
    \/ \E id \in RunIds : DelayElapsed(id)
    \/ \E id \in RunIds : CooldownElapsed(id)
    \/ \E id \in 1..MaxRows, newTarget \in Typed : handleManualEdit(id, newTarget)
    \/ \E v \in RevalIds, id \in 1..MaxRows : reValidateItem(v, id)
    \/ \E v \in RevalIds, kind \in Answers, translation \in scenario.translations,
          confidence \in Confidences :
             RevalReturned(v, kind, translation, confidence)

Spec == Init /\ [][Next]_vars

(* ------------------------- steps of an invocation --------------------- *)
\* translateBatch settles with an answer of one of the kinds
CallReturns(id, kinds) ==
    \E kind \in kinds \cap Answers, translations \in ResultSeqs,
       confidence \in Confidences :
          CallReturned(id, kind, translations, confidence)

\* a segment of invocation id runs
RunStep(id) ==
    \/ MetaResolved(id)
    \/ CallReturns(id, Answers)
    \/ DelayElapsed(id)
    \/ CooldownElapsed(id)

\* invocation id awaits a translateBatch call it has just issued
Dispatches(id) == RunStep(id) /\ runs'[id].pc = "call"

\* the displayed items that belong to the file called name
ItemsOf(items, name) ==
    {k \in 1..Len(items) : items[k].fileName = name}

\* the step marks no item failed
NoneNewlyFailed ==
    /\ Len(currentItems') = Len(currentItems)
    /\ \A k \in 1..Len(currentItems) :
          currentItems'[k].status = "failed" => currentItems[k].status = "failed"

(* -------------------------------- C1 ---------------------------------- *)
\* C1: at most one translateBatch call issued by startBatchProcess is
\* outstanding in every reachable state.
C1_AtMostOneCallOutstanding ==
    Cardinality({id \in RunIds : runs[id].pc = "call"}) <= 1

(* -------------------------------- C2 ---------------------------------- *)
\* C2: once a stop was requested during a run, that run issues no further
\* translateBatch call.
C2_NoDispatchAfterStop ==
    [][\A id \in RunIds : runs[id].stopRequested => ~Dispatches(id)]_vars

(* -------------------------------- C3 ---------------------------------- *)
\* C3: when the call of a batch fails with a transport error, exactly the
\* items of that batch become failed, the error counter grows by one, every
\* other item is unchanged, and the batch is not sent again.
C3_BatchFailure ==
    [][\A id \in RunIds :
          CallReturns(id, {"transport"}) =>
             LET ids == Ids(Batch(runs[id]))
                 name == FileName(runs[id])
             IN /\ errors' = errors + 1
                /\ Len(currentItems') = Len(currentItems)
                /\ \A k \in 1..Len(currentItems) :
                      currentItems'[k] =
                         IF k \in ItemsOf(currentItems, name)
                            /\ currentItems[k].id \in ids
                         THEN [currentItems[k] EXCEPT !.status = "failed"]
                         ELSE currentItems[k]
                /\ \A b \in ids : \E k \in ItemsOf(currentItems', name) :
                      /\ currentItems'[k].id = b
                      /\ currentItems'[k].status = "failed"
                /\ runs'[id].pc = "delay"]_vars

(* -------------------------------- C4 ---------------------------------- *)
\* C4: when a run that was not asked to stop sets a file's status to done
\* every item of that file is done or cached, and when it sets the status
\* to error some item of the file is not.
C4_DoneIffComplete ==
    [][\A id \in RunIds : (~shouldStop /\ RunStep(id)) =>
          \A f \in 1..Len(fileQueue) :
             LET own == ItemsOf(currentItems', fileQueue[f].name)
             IN /\ (fileQueue[f].status # "done" /\ fileQueue'[f].status = "done")
                      => \A k \in own : IsComplete(currentItems'[k])
                /\ (fileQueue[f].status # "error" /\ fileQueue'[f].status = "error")
                      => \E k \in own : ~IsComplete(currentItems'[k])]_vars

(* -------------------------------- C5 ---------------------------------- *)
\* C5: when a call fails because authentication failed or the credential
\* is missing, the run ends at once, no item is marked failed and an error
\* is shown.
C5_AuthAborts ==
    [][\A id \in RunIds :
          CallReturns(id, {"auth", "missing"}) =>
             /\ runs'[id].pc = "done"
             /\ NoneNewlyFailed
             /\ errorMsg']_vars

(* -------------------------------- C6 ---------------------------------- *)
\* the indices of the configured Gemini keys
Keys == 0..(nKeys - 1)

\* C6: with more than one key, when the first key tried for a batch answers
\* with a rate limit the same batch is sent again with the next key, no item
\* fails, and when the call with that key succeeds the items of the batch
\* are done.
C6_RotationResend ==
    [][\A id \in RunIds :
          /\ (/\ serviceType = "gemini" /\ nKeys > 1 /\ ~shouldStop
               /\ runs[id].tried = {runs[id].key}
               /\ CallReturns(id, {"rate"}))
              => /\ runs'[id].pc = "call"
                 /\ Batch(runs'[id]) = Batch(runs[id])
                 /\ runs'[id].key = (runs[id].key + 1) % nKeys
                 /\ NoneNewlyFailed
                 /\ errors' = errors
          /\ (/\ serviceType = "gemini" /\ nKeys > 1
               /\ Cardinality(runs[id].tried) > 1
               /\ CallReturns(id, {"ok"}))
              => \A b \in Ids(Batch(runs[id])) :
                    \E k \in ItemsOf(currentItems', FileName(runs[id])) :
                       /\ currentItems'[k].id = b
                       /\ currentItems'[k].status = "done"]_vars

(* -------------------------------- C7 ---------------------------------- *)
\* C7: a rate-limited call is followed by the cooldown exactly when every
\* key has been tried since the last success or cooldown, and after the
\* cooldown the same batch is sent again.
C7_CooldownWhenExhausted ==
    [][\A id \in RunIds :
          /\ (/\ serviceType = "gemini" /\ nKeys >= 1 /\ ~shouldStop
               /\ CallReturns(id, {"rate"}))
              => (runs'[id].pc = "cooldown" <=> runs[id].tried = Keys)
          /\ (~shouldStop /\ CooldownElapsed(id))
              => /\ runs'[id].pc = "call"
                 /\ Batch(runs'[id]) = Batch(runs[id])]_vars

(* -------------------------------- C8 ---------------------------------- *)
\* C8: for either backend a call that fails with a rate limit or an
\* exhausted quota marks no item failed, leaves the error counter alone and
\* leaves the run on the same batch, sending it again or waiting to.
C8_RateLimitNeverFails ==
    [][\A id \in RunIds :
          CallReturns(id, {"rate", "quota"}) =>
             /\ errors' = errors
             /\ NoneNewlyFailed
             /\ ~shouldStop =>
                   /\ runs'[id].pc \in {"call", "cooldown"}
                   /\ Batch(runs'[id]) = Batch(runs[id])]_vars

(* -------------------------------- C9 ---------------------------------- *)
\* C9 as stated: every item of a file whose trimmed source is a key of the
\* TM with translation t has, once the run has opened the file, target t,
\* status cached and confidence 100, and is not left for the backend.
C9_TmHitAnyItem ==
    [][\A id \in RunIds : MetaResolved(id) =>
          \A k \in 1..Len(runs[id].items) :
             LET it == runs[id].items[k]
                 t == Lookup(runs[id].tempTm, Trim(it.source))
             IN t # undefined =>
                   /\ currentItems'[k].target = t
                   /\ currentItems'[k].status = "cached"
                   /\ currentItems'[k].confidence = 100
                   /\ it.id \notin Ids(runs'[id].pending)]_vars

\* C9, amended: every item that is not already done or cached and whose
\* trimmed source has a non-empty translation t in the run's copy of the TM
\* has, once the run has opened the file, target t, status cached and
\* confidence 100, and is not left for the backend.
C9_TmHitOpenItem ==
    [][\A id \in RunIds : MetaResolved(id) =>
          \A k \in 1..Len(runs[id].items) :
             LET it == runs[id].items[k]
                 t == Lookup(runs[id].tempTm, Trim(it.source))
             IN (~IsComplete(it) /\ ~Falsy(t)) =>
                   /\ currentItems'[k].target = t
                   /\ currentItems'[k].status = "cached"
                   /\ currentItems'[k].confidence = 100
                   /\ it.id \notin Ids(runs'[id].pending)]_vars

\* a displayed item served from the TM
C9_Served ==
    \E k \in 1..Len(currentItems) :
       /\ currentItems[k].status = "cached"
       /\ currentItems[k].target = Lookup(tm, currentItems[k].source)
       /\ currentItems[k].confidence = 100

(* -------------------------------- C10 --------------------------------- *)
\* C10: no item of a batch that is sent to the backend has a trimmed source
\* that is a key of the run's TM at that moment, the entries added by the
\* earlier batches of the file included.
C10_TmConsultedBeforeEveryCall ==
    [][\A id \in RunIds : Dispatches(id) =>
          \A k \in 1..Len(Batch(runs'[id])) :
             Trim(Batch(runs'[id])[k].source) \notin DOMAIN runs'[id].tempTm]_vars

(* -------------------------------- C11 --------------------------------- *)
\* invocation id returns from startBatchProcess
Ends(id) == RunStep(id) /\ runs'[id].pc = "done"

\* C11: when a run ends, whether it completed its file or was stopped inside
\* it, every pair of the run's TM copy, the pairs added by its successful
\* batches included, is in the persisted TM.
C11_PairsPersistedWhenRunEnds ==
    [][\A id \in RunIds : Ends(id) =>
          \A k \in DOMAIN runs[id].tempTm :
             Lookup(storedTm', k) = runs[id].tempTm[k]]_vars

(* -------------------------------- C12 --------------------------------- *)
\* the entries of a run's TM copy that the persisted TM does not hold
Unsaved(id) ==
    {k \in DOMAIN runs[id].tempTm : Lookup(storedTm, k) # runs[id].tempTm[k]}

\* C12: whenever a run is suspended in a backend call, an inter-batch delay
\* or a cooldown, the persisted TM lacks at most the pairs of one batch.
C12_PersistedLacksAtMostOneBatch ==
    \A id \in RunIds :
       runs[id].pc \in {"call", "delay", "cooldown"} =>
          Cardinality(Unsaved(id)) <= batchSize

SameId(items, it) == {k \in 1..Len(items) : items[k].id = it.id}

\* C14: a run started after a stop sends no item that was displayed done or
\* cached when Stop was clicked; no run sends an item that it read as done
\* or cached; and the first batch a run sends for a file starts at the first
\* item in row order that is not done or cached.
C14_ResumeSkipsTranslated ==
    [][\A id \in RunIds :
          /\ (Dispatches(id) /\ ~runs[id].stopRequested) =>
                \A b \in 1..Len(Batch(runs'[id])) :
                   LET it == Batch(runs'[id])[b]
                   IN /\ \A j \in RunIds :
                            <<it.fileName, it.id>> \notin runs[j].doneAtStop
                      /\ \A k \in SameId(runs'[id].items, it) :
                            ~IsComplete(runs'[id].items[k])
          /\ (MetaResolved(id) /\ runs'[id].pc = "call") =>
                \A k \in 1..Len(currentItems') :
                   currentItems'[k].id < Batch(runs'[id])[1].id
                      => IsComplete(currentItems'[k])]_vars

(* -------------------------------- C15 --------------------------------- *)
\* some invocation of startBatchProcess has not returned
RunInProgress == \E id \in RunIds : runs[id].pc \notin {"idle", "done"}

\* the stored items of the file called name, none when nothing is stored
StoredItems(results, name) == IF name \in DOMAIN results THEN results[name] ELSE <<>>

\* the retry of queue entry index leaves the entry pending, makes pending
\* the stored items that are failed or have no target and no other
RetryResets(index) ==
    LET name == fileQueue[index + 1].name
        old == StoredItems(fileResults, name)
        new == StoredItems(fileResults', name)
    IN /\ fileQueue'[index + 1].status = "pending"
       /\ Len(new) = Len(old)
       /\ \A k \in 1..Len(old) :
             new[k] = IF old[k].status = "failed" \/ old[k].target \in {undefined, <<>>}
                      THEN [old[k] EXCEPT !.status = "pending"]
                      ELSE old[k]

\* C15: a retry of a file while a run is in progress changes nothing; any
\* other retry leaves the file pending and resets exactly its failed and
\* target-less items to pending; and a run sends no item that its file's
\* stored results hold as done or cached.
C15_RetryResetsOnlyOpenItems ==
    [][/\ \A index \in 0..(Len(fileQueue) - 1) :
             handleRetryFile(index) =>
                IF RunInProgress
                THEN UNCHANGED <<fileQueue, currentItems, fileResults>>
                ELSE RetryResets(index)
       /\ \A id \in RunIds : Dispatches(id) =>
             \A b \in 1..Len(Batch(runs'[id])) :
                \A k \in SameId(runs'[id].items, Batch(runs'[id])[b]) :
                   ~IsComplete(runs'[id].items[k])]_vars

(* -------------------------------- C16 --------------------------------- *)
\* the items of a list that are the item it of its file
SameItem(items, it) ==
    {k \in 1..Len(items) : items[k].id = it.id /\ items[k].fileName = it.fileName}

\* C16: when the call of a re-validation succeeds with translation t, the
\* stored item has target t, status done and no edited flag, and the
\* persisted TM maps the item's trimmed source to t; when the call fails the
\* displayed item is failed and no item's target or edited flag changes.
C16_RevalidateOutcome ==
    [][\A v \in RevalIds, kind \in Answers, t \in scenario.translations,
          c \in Confidences :
          RevalReturned(v, kind, t, c) =>
             LET it == revals[v].item
                 stored == StoredItems(fileResults', it.fileName)
             IN IF kind = "ok"
                THEN /\ SameItem(stored, it) # {}
                     /\ \A k \in SameItem(stored, it) :
                           /\ stored[k].target = t
                           /\ stored[k].status = "done"
                           /\ ~stored[k].isEdited
                     /\ Lookup(storedTm', Trim(it.source)) = t
                ELSE /\ Len(currentItems') = Len(currentItems)
                     /\ \A k \in 1..Len(currentItems) :
                           /\ currentItems'[k].target = currentItems[k].target
                           /\ currentItems'[k].isEdited = currentItems[k].isEdited
                     /\ \A k \in SameItem(currentItems', it) :
                           currentItems'[k].status = "failed"]_vars

(* -------------------------------- C17 --------------------------------- *)
\* the ids of a batch are in row order
Ascending(batch) ==
    \A a, b \in 1..Len(batch) : a < b => batch[a].id < batch[b].id

\* the displayed items of the run's file whose id lies strictly between lo
\* and hi are neither pending nor failed
NoneOpenBetween(items, lo, hi) ==
    \A k \in 1..Len(items) :
       (lo < items[k].id /\ items[k].id < hi)
          => items[k].status \notin {"pending", "failed"}

\* C17: every batch a run sends has from one to batchSize items in row
\* order; the first batch of a file starts at the file's first pending or
\* failed item; the batch sent after a merged or failed batch follows a
\* batch of exactly batchSize items and starts at the next pending item; a
\* batch sent again after a rate limit is the same batch; a run that was
\* not asked to stop leaves a file with no pending item behind its last
\* batch; and a run opens files in queue order and sends no batch for a
\* file that the queue shows done when the run opens it.
C17_BatchesPartitionInOrder ==
    [][\A id \in RunIds :
          LET old == Batch(runs[id])
              new == Batch(runs'[id])
          IN /\ Dispatches(id) =>
                   /\ Len(new) \in 1..batchSize
                   /\ Ascending(new)
             /\ (MetaResolved(id) /\ Dispatches(id)) =>
                   NoneOpenBetween(currentItems', 0, new[1].id)
             /\ (DelayElapsed(id) /\ Dispatches(id)) =>
                   /\ Len(old) = batchSize
                   /\ old[Len(old)].id < new[1].id
                   /\ NoneOpenBetween(currentItems', old[Len(old)].id, new[1].id)
             /\ ((CallReturns(id, {"rate", "quota"}) \/ CooldownElapsed(id))
                   /\ Dispatches(id)) => new = old
             /\ (DelayElapsed(id) /\ ~shouldStop /\ ~Dispatches(id)) =>
                   NoneOpenBetween(currentItems, old[Len(old)].id, MaxRows + 1)
             /\ (MetaResolved(id) /\ ~shouldStop /\ ~Dispatches(id)) =>
                   NoneOpenBetween(currentItems', 0, MaxRows + 1)
             /\ (RunStep(id) /\ runs'[id].pc = "meta") =>
                   runs[id].fIdx < runs'[id].fIdx
             /\ (/\ MetaResolved(id)
                 /\ runs[id].fIdx < Len(fileQueue)
                 /\ fileQueue[runs[id].fIdx + 1].status = "done")
                   => ~Dispatches(id)]_vars

(* -------------------------------- C18 --------------------------------- *)
\* the file called name owns a failed item, stored or displayed
OwnsFailed(name) ==
    \/ \E k \in 1..Len(StoredItems(fileResults, name)) :
          StoredItems(fileResults, name)[k].status = "failed"
    \/ \E k \in ItemsOf(currentItems, name) : currentItems[k].status = "failed"

\* C18: a file whose status is error owns at least one failed item.
C18_ErrorFileOwnsFailedItem ==
    \A f \in 1..Len(fileQueue) :
       fileQueue[f].status = "error" => OwnsFailed(fileQueue[f].name)

(* -------------------------------- C19 --------------------------------- *)
\* C19: every file of the queue has completedItems <= totalItems.
C19_CompletedAtMostTotal ==
    \A f \in 1..Len(fileQueue) :
       fileQueue[f].completedItems <= fileQueue[f].totalItems

(* -------------------------------- C20 --------------------------------- *)
\* the target of an item is defined exactly when the item is done, cached
\* or manually edited
TargetIffTranslated(it) ==
    it.target # undefined <=> (IsComplete(it) \/ it.isEdited)

\* C20: every item, displayed or stored, has a target exactly when it is
\* done, cached or manually edited.
C20_TargetIffDoneCachedOrEdited ==
    /\ \A k \in 1..Len(currentItems) : TargetIffTranslated(currentItems[k])
    /\ \A name \in DOMAIN fileResults :
          \A k \in 1..Len(fileResults[name]) :
             TargetIffTranslated(fileResults[name][k])

(* ------------------ DeepLTranslator.translateBatch -------------------- *)
\* longest glossary term
MaxTerm == 2
\* most glossary entries
MaxGloss == 2
\* longest source string of an item
MaxSource == 2

\* A text is a sequence of symbols: single characters, and the two tags the
\* service writes, each one symbol.
OpenTag == "<glue>"
CloseTag == "</glue>"

\* the characters \w matches, of those modelled
WordChars == {"a", "A", "x", "y"}

LineTerminators == {"\n", "\r"}

\* the sequences over S of length at most n
Seqs(S, n) == UNION {[1..m -> S] : m \in 0..n}

\* glossary keys: a letter, and two characters with a meaning in a pattern
Terms == Seqs({"a", ".", "("}, MaxTerm) \ {<<>>}

\* glossary values, one of them with a line break
UaTexts == { <<"x">>, <<"x", "\n", "y">> }

Sources == Seqs({"a", "A", ".", " "}, MaxSource) \ {<<>>}

\* Object.entries(JSON.parse(glossaryJson)): the entries in insertion order,
\* each <<eng, ua>>, no key twice
Glossaries ==
    {g \in Seqs(Terms \X UaTexts, MaxGloss) :
        \A i, j \in 1..Len(g) : i # j => g[i][1] # g[j][1]}

\* the translated text a backend answers with
Bodies == { <<"y">>, <<" ", "y">> }

\* position p of s (counted from 1) holds a word character
IsWord(s, p) == p \in 1..Len(s) /\ s[p] \in WordChars

\* \b holds between s[p] and s[p + 1]
Boundary(s, p) == IsWord(s, p) # IsWord(s, p + 1)

\* new RegExp(`\\b${eng}\\b`, 'i') throws: an unterminated group
SyntaxError(eng) == \E k \in 1..Len(eng) : eng[k] = "("

\* one character of the pattern against one character of the text
AtomMatches(a, c) ==
    IF a = "." THEN c \notin LineTerminators ELSE ToLower(a) = ToLower(c)

\* the pattern matches the Len(eng) characters after position p
MatchesAt(eng, source, p) ==
    /\ p + Len(eng) <= Len(source)
    /\ Boundary(source, p)
    /\ \A k \in 1..Len(eng) : AtomMatches(eng[k], source[p + k])
    /\ Boundary(source, p + Len(eng))

\* regex.test(source)
RegexTest(eng, source) == \E p \in 0..Len(source) : MatchesAt(eng, source, p)

\* glossaryEntries.filter(...)
Matches(glossary, source) ==
    Filter(glossary,
           [k \in 1..Len(glossary) |-> RegexTest(glossary[k][1], source)], 1)

\* Array.prototype.join
RECURSIVE Join(_, _)
Join(parts, sep) ==
    IF parts = <<>> THEN <<>>
    ELSE IF Len(parts) = 1 THEN parts[1]
    ELSE parts[1] \o sep \o Join(Tail(parts), sep)

\* `${eng}=${ua}`
Pair(e) == e[1] \o <<"=">> \o e[2]

\* `<glue>${contextStr}</glue>`
Glue(matches) ==
    <<OpenTag>> \o Join([k \in 1..Len(matches) |-> Pair(matches[k])], <<";", " ">>)
                \o <<CloseTag>>

TextToSend(glossary, source) ==
    LET matches == Matches(glossary, source)
    IN IF Len(matches) > 0 THEN Glue(matches) \o <<" ">> \o source ELSE source

\* the position of the first closing tag of s after position 1, 0 if none
FirstClose(s) ==
    LET at == {q \in 2..Len(s) : s[q] = CloseTag}
    IN IF at = {} THEN 0 ELSE CHOOSE q \in at : \A r \in at : q <= r

\* replace(/<glue>.*?<\/glue>\s*/gi, ''): . matches no line terminator
RECURSIVE StripGlue(_)
StripGlue(s) ==
    IF s = <<>> THEN <<>>
    ELSE LET q == FirstClose(s)
         IN IF /\ Head(s) = OpenTag
               /\ q > 0
               /\ \A k \in 2..(q - 1) : s[k] \notin LineTerminators
            THEN StripGlue(TrimLeft(SubSeq(s, q + 1, Len(s))))
            ELSE <<Head(s)>> \o StripGlue(Tail(s))

\* an invocation for one item, before its first statement
Invocation(apiKey, glossary, source) ==
    [pc |-> "start", apiKey |-> apiKey, glossary |-> glossary,
     source |-> source, textToSend |-> <<>>, hasGlossaryMatch |-> FALSE,
     matches |-> <<>>, preserved |-> FALSE, body |-> <<>>, text |-> <<>>,
     translation |-> <<>>, confidence |-> noConfidence, error |-> "none"]

\* The segment up to the await of fetch: the key is checked, the patterns
\* are built and tested, the text to send is composed.
translateBatch ==
    /\ deepl.pc = "start"
    /\ deepl' =
          IF ~deepl.apiKey
          THEN [deepl EXCEPT !.pc = "threw", !.error = "DeepL API Key is missing."]
          ELSE IF \E k \in 1..Len(deepl.glossary) : SyntaxError(deepl.glossary[k][1])
          THEN [deepl EXCEPT !.pc = "threw", !.error = "SyntaxError"]
          ELSE LET matches == Matches(deepl.glossary, deepl.source)
               IN [deepl EXCEPT
                     !.pc = "fetch",
                     !.textToSend = TextToSend(deepl.glossary, deepl.source),
                     !.hasGlossaryMatch = Len(matches) > 0,
                     !.matches = [k \in 1..Len(matches) |-> matches[k][1]]]
    /\ UNCHANGED <<app, csv>>

\* The response is ok: the backend answers with body, after the annotation
\* as it was sent where it preserved it.  The annotation is stripped.
FetchResolved(body, preserved) ==
    /\ deepl.pc = "fetch"
    /\ preserved => deepl.hasGlossaryMatch
    /\ LET sent == deepl.textToSend
           span == SubSeq(sent, 1, Len(sent) - Len(deepl.source))
           text == IF preserved THEN span \o body ELSE body
       IN deepl' = [deepl EXCEPT
                      !.pc = "returned", !.preserved = preserved,
                      !.body = body, !.text = text,
                      !.translation = Trim(StripGlue(text)),
                      !.confidence = IF deepl.hasGlossaryMatch THEN 100 ELSE 90]
    /\ UNCHANGED <<app, csv>>

\* The response is not ok.
FetchFailed(status) ==
    /\ deepl.pc = "fetch"
    /\ deepl' = [deepl EXCEPT
                   !.pc = "threw",
                   !.error = IF status = 403 THEN "DeepL Auth Failed (Check Key)"
                             ELSE IF status = 456 THEN "DeepL Quota Exceeded"
                             ELSE IF status = 429 THEN "RATE_LIMIT"
                             ELSE "DeepL Error"]
    /\ UNCHANGED <<app, csv>>

\* the orchestrator stays as mounted, configured for DeepL
AppAside ==
    /\ scenario = Sequential
    /\ runs = [id \in 1..1 |-> IdleRun]
    /\ revals = [v \in {} |-> IdleReval]
    /\ build \in {1, 2}
    /\ serviceType = "deepl"
    /\ nKeys = 0
    /\ deepLKey = TRUE
    /\ batchSize = 1
    /\ tm = EmptyTm
    /\ Mounted

InitDeepL ==
    /\ AppAside
    /\ csv = NoText
    /\ deepl \in {Invocation(apiKey, glossary, source) :
                    apiKey \in BOOLEAN, glossary \in Glossaries,
                    source \in Sources}

NextDeepL ==
    \/ translateBatch
    \/ \E body \in Bodies, preserved \in BOOLEAN : FetchResolved(body, preserved)
    \/ \E status \in {403, 429} : FetchFailed(status)

SpecDeepL == InitDeepL /\ [][NextDeepL]_vars

(* -------------------------------- C21 --------------------------------- *)
\* the term is made of word characters only
WordTerm(eng) == \A k \in 1..Len(eng) : eng[k] \in WordChars

\* the literal term occurs in source, whatever the case, with no word
\* character next to it on either side
ContainsWord(eng, source) ==
    \E p \in 0..(Len(source) - Len(eng)) :
       /\ \A k \in 1..Len(eng) : ToLower(eng[k]) = ToLower(source[p + k])
       /\ ~IsWord(source, p)
       /\ ~IsWord(source, p + Len(eng) + 1)

\* part occurs in text as a run of adjacent symbols
IsInfix(part, text) ==
    \E p \in 0..(Len(text) - Len(part)) :
       SubSeq(text, p + 1, p + Len(part)) = part

\* text is the source with an annotation before it that holds the pair of e
Annotated(text, e, source) ==
    /\ Head(text) = OpenTag
    /\ IsInfix(Pair(e) \o <<CloseTag>>, text) \/ IsInfix(Pair(e) \o <<";", " ">>, text)
    /\ SubSeq(text, Len(text) - Len(source), Len(text)) = <<" ">> \o source

\* C21: with a glossary of terms made of word characters, the text sent for
\* a source that contains a term as a whole word carries the annotation
\* term=translation before the source, and the translation returned for a
\* response that preserved the annotation is the trimmed body alone.
C21_GlossaryRoundTrip ==
    (/\ deepl.pc \in {"fetch", "returned"}
     /\ \A k \in 1..Len(deepl.glossary) : WordTerm(deepl.glossary[k][1]))
    => /\ \A k \in 1..Len(deepl.glossary) :
             ContainsWord(deepl.glossary[k][1], deepl.source)
                => Annotated(deepl.textToSend, deepl.glossary[k], deepl.source)
       /\ (deepl.pc = "returned" /\ deepl.preserved)
             => deepl.translation = Trim(deepl.body)

(* -------------------------------- C22 --------------------------------- *)
\* C22: building the patterns never fails, and a term is among the matches
\* of a source exactly when the literal term occurs in it as a whole word.
C22_TermsMatchLiterally ==
    /\ deepl.pc = "threw" => deepl.error # "SyntaxError"
    /\ deepl.pc \in {"fetch", "returned"} =>
          \A k \in 1..Len(deepl.glossary) :
             (\E m \in 1..Len(deepl.matches) :
                 deepl.matches[m] = deepl.glossary[k][1])
                <=> ContainsWord(deepl.glossary[k][1], deepl.source)

(* ----------------------------- downloadFile --------------------------- *)
\* replace(/"/g, '""')
RECURSIVE EscapeQuotes(_)
EscapeQuotes(text) ==
    IF text = <<>> THEN <<>>
    ELSE (IF Head(text) = "\"" THEN <<"\"", "\"">> ELSE <<Head(text)>>)
         \o EscapeQuotes(Tail(text))

\* item.target || ''
OrEmpty(target) == IF Falsy(target) THEN <<>> ELSE target

\* header + rows: the text of the blob
Export(results) ==
    LET Line(item) ==
           <<"\"">> \o item.key \o <<"\"", ",", "\"">>
              \o EscapeQuotes(item.source) \o <<"\"", ",", "\"">>
              \o EscapeQuotes(OrEmpty(item.target)) \o <<"\"">>
    IN <<"key", ",", "source", ",", "target", "\n">>
          \o Join([k \in 1..Len(results) |-> Line(results[k])], <<"\n">>)

(* ------------------------------ CSV files ----------------------------- *)
\* most cells of a row and most rows of a file written to test the parser
MaxCells == 2
MaxLines == 2

\* ways to write a table as CSV text: every cell quoted or only those that
\* need it, the line ending, and whether the last row ends with one
Styles ==
    [quoteAll : BOOLEAN, eol : { <<"\n">>, <<"\r", "\n">>, <<"\r">> },
     trailing : BOOLEAN]

PlainStyle == [quoteAll |-> FALSE, eol |-> <<"\n">>, trailing |-> TRUE]

\* the text of a table in a style
Encode(table, style) ==
    LET Needs(cell) == \E k \in 1..Len(cell) : cell[k] \in {",", "\"", "\n", "\r"}
        Cell(cell) == IF style.quoteAll \/ Needs(cell)
                      THEN <<"\"">> \o EscapeQuotes(cell) \o <<"\"">> ELSE cell
        Row(row) == Join([c \in 1..Len(row) |-> Cell(row[c])], <<",">>)
    IN IF table = <<>> THEN <<>>
       ELSE Join([r \in 1..Len(table) |-> Row(table[r])], style.eol)
               \o (IF style.trailing THEN style.eol ELSE <<>>)

\* rows of 1..n cells drawn from cells
RowsOf(cells, n) == Seqs(cells, n) \ {<<>>}

\* tables that exercise the parser: cells with a comma, a quote, a line break
ParserTables ==
    Seqs(RowsOf({ <<>>, <<"a">>, <<",">>, <<"\"">>, <<"\n">> }, MaxCells), MaxLines)

\* header rows: all three columns, the source column alone with blanks and
\* capitals, another order, and no source column
Headers ==
    { << <<"key">>, <<"source">>, <<"target">> >>,
      << <<" ", "Source">> >>,
      << <<"TARGET">>, <<"source">> >>,
      << <<"KEY">>, <<"target">> >> }

\* tables with a header row and up to MaxLines rows below it, none longer
\* than the header
HeadedTables ==
    UNION {{<<header>> \o body :
              body \in Seqs(RowsOf({ <<>>, <<" ">>, <<"\"">>, <<"a", ",">> },
                                   Len(header)), MaxLines)} :
           header \in Headers}

\* a file as handed to the reader
FileText(table, style) ==
    [pc |-> "text", table |-> table, style |-> style,
     text |-> Encode(table, style), rows |-> <<>>, items |-> <<>>,
     exported |-> <<>>, round |-> 0]

\* reader.onload: the text is parsed and the items are made of the rows
onload ==
    /\ csv.pc = "text"
    /\ LET rows == parseCSV(csv.text)
       IN csv' = [csv EXCEPT !.pc = "items", !.rows = rows,
                             !.items = ReadItems(rows, "F.csv")]
    /\ UNCHANGED <<app, deepl>>

\* downloadFile of the file: its items are written as CSV text, which can
\* be dropped again
downloadFile ==
    /\ csv.pc = "items"
    /\ csv.round = 0
    /\ csv' = IF build = 2 /\ Len(csv.items) = 0
              THEN [csv EXCEPT !.pc = "empty"]
              ELSE [csv EXCEPT !.pc = "text", !.text = Export(csv.items),
                               !.exported = csv.items, !.round = 1]
    /\ UNCHANGED <<app, deepl>>

InitCsv ==
    /\ AppAside
    /\ deepl = NoCall
    /\ csv \in {FileText(table, style) : table \in ParserTables, style \in Styles}
               \cup {FileText(table, PlainStyle) : table \in HeadedTables}

NextCsv == onload \/ downloadFile

SpecCsv == InitCsv /\ [][NextCsv]_vars

(* -------------------------------- C23 --------------------------------- *)
\* C23: the text downloadFile writes, parsed by parseCSV, is the header row
\* key, source, target followed by one row per exported item holding
\* exactly its key, its source and its target.
C23_ExportParsesBack ==
    (csv.pc = "items" /\ csv.round = 1)
    => csv.rows = << << <<"key">>, <<"source">>, <<"target">> >> >>
                  \o [k \in 1..Len(csv.exported) |->
                        << csv.exported[k].key, csv.exported[k].source,
                           OrEmpty(csv.exported[k].target) >>]

(* -------------------------------- C24 --------------------------------- *)
\* the text of the table can be read in one way only: it does not end with
\* an unquoted empty row that no line ending follows
Unambiguous(table, style) ==
    ~(/\ table # <<>>
      /\ table[Len(table)] = << <<>> >>
      /\ ~style.quoteAll
      /\ ~style.trailing)

\* C24: parseCSV returns the rows of the table the text was written from,
\* in order and cell by cell, whatever the quoting and the line endings.
C24_ParseReturnsTable ==
    (csv.pc = "items" /\ csv.round = 0 /\ Unambiguous(csv.table, csv.style))
    => csv.rows = csv.table

(* -------------------------------- C25 --------------------------------- *)
\* C25: the items made of the parsed rows are, in row order, one per row
\* below the header whose trimmed cell in the source column is not empty,
\* with the row number as id; the columns are those whose trimmed header,
\* in any case, is key, source, target; the key is the trimmed key cell or,
\* where there is none, row_<id>; the status is done where the trimmed
\* target cell is not empty and pending otherwise.
C25_ItemsOfRows ==
    csv.pc = "items" =>
       LET rows == csv.rows
           items == csv.items
           Named(h) == [k \in 1..Len(Trim(h)) |-> ToLower(Trim(h)[k])]
           Col(name) ==
              LET at == {c \in 1..Len(rows[1]) : Named(rows[1][c]) = <<name>>}
              IN IF at = {} THEN 0 ELSE CHOOSE c \in at : \A d \in at : c <= d
           Cell(i, name) ==
              IF Col(name) \in 1..Len(rows[i + 1])
              THEN Trim(rows[i + 1][Col(name)]) ELSE <<>>
           usable == {i \in 1..(Len(rows) - 1) : Cell(i, "source") # <<>>}
       IN /\ Ids(items) = usable
          /\ Len(items) = Cardinality(usable)
          /\ \A k, l \in 1..Len(items) : k < l => items[k].id < items[l].id
          /\ \A k \in 1..Len(items) :
                LET it == items[k]
                IN /\ it.source = Cell(it.id, "source")
                   /\ it.key = IF Cell(it.id, "key") # <<>>
                               THEN Cell(it.id, "key")
                               ELSE <<"row_" \o ToString(it.id)>>
                   /\ it.status = IF Cell(it.id, "target") # <<>> THEN "done"
                                  ELSE "pending"

(* -------------------------------- C26 --------------------------------- *)
\* C26: when the read of a file without any usable item resolves and no
\* stop was requested, the run makes no call for the file, the file's
\* status is done or error, and the run awaits the read of the next file of
\* its queue that is not done, or returns where there is none.
C26_EmptyFileSkipped ==
    [][\A id \in RunIds :
          (/\ MetaResolved(id)
           /\ Materialize(FileName(runs[id])) = <<>>
           /\ runs[id].items = <<>>
           /\ ~shouldStop)
          => LET f == runs[id].fIdx
                 q == runs[id].q
                 later == {k \in (f + 1)..(Len(q) - 1) : q[k + 1].status # "done"}
             IN /\ fileQueue'[f + 1].status \in {"done", "error"}
                /\ IF later = {} THEN runs'[id].pc = "done"
                   ELSE /\ runs'[id].pc = "meta"
                        /\ runs'[id].fIdx = CHOOSE k \in later : \A j \in later : k <= j]_vars

\* a run that went through F.csv, which has no rows, awaits a call for C.csv
C26_PastEmptyFile ==
    \E id \in RunIds :
       /\ runs[id].pc = "call"
       /\ FileName(runs[id]) = "C.csv"
       /\ Len(fileQueue) = 2
       /\ fileQueue[1].name = "F.csv"
       /\ fileQueue[1].status = "done"

(* -------------------------------- C27 --------------------------------- *)
\* C27: in every reachable state no two entries of the file queue have the
\* same name.
C27_QueueNamesUnique ==
    \A j, k \in 1..Len(fileQueue) :
       fileQueue[j].name = fileQueue[k].name => j = k

(* -------------------------------- C28 --------------------------------- *)
\* C28: every entry of the queue shows a progress that is an integer of
\* 0..100, the rounded percentage of its completedItems in its totalItems
\* where it has items, and an entry that is done shows as many
\* completedItems as totalItems and a progress of 100.
C28_ProgressOfCounts ==
    \A k \in 1..Len(fileQueue) :
       LET e == fileQueue[k]
       IN /\ e.progress # NaN
          /\ e.progress \in 0..100
          /\ e.totalItems > 0 => e.progress = RoundPercent(e.completedItems, e.totalItems)
          /\ e.status = "done" => e.completedItems = e.totalItems /\ e.progress = 100

(* -------------------------------- C29 --------------------------------- *)
\* C29: an item is processing, in the displayed list or in the stored
\* results, only while a call is in flight for it: the call of a run whose
\* batch holds the item, or the call of the Fix button of the item.
C29_ProcessingOnlyInFlight ==
    LET InFlight(item) ==
            \/ \E id \in RunIds :
                  /\ runs[id].pc = "call"
                  /\ FileName(runs[id]) = item.fileName
                  /\ item.id \in Ids(Batch(runs[id]))
            \/ \E v \in RevalIds :
                  /\ revals[v].pc = "call"
                  /\ revals[v].item.id = item.id
    IN /\ \A k \in 1..Len(currentItems) :
             currentItems[k].status = "processing" => InFlight(currentItems[k])
       /\ \A n \in DOMAIN fileResults : \A k \in 1..Len(fileResults[n]) :
             fileResults[n][k].status = "processing" => InFlight(fileResults[n][k])

(* -------------------------------- C30 --------------------------------- *)
\* C30: a segment of a run that is at file F, with the entry of F in the
\* queue, changes no entry of the queue but the entry of F, whatever other
\* file was deleted, moved or added meanwhile.
C30_UpdatesOwnEntry ==
    [][\A id \in RunIds :
          (/\ RunStep(id)
           /\ \E k \in 1..Len(fileQueue) : fileQueue[k].name = FileName(runs[id]))
          => \A k \in 1..Len(fileQueue) :
                fileQueue'[k] # fileQueue[k] => fileQueue[k].name = FileName(runs[id])]_vars

(* -------------------------------- C31 --------------------------------- *)
\* C31: the persisted TM has an entry for every source that a returned Fix
\* call wrote to it, whatever a run or another Fix call persisted since.
C31_RevalidatedEntryKept ==
    \A v \in RevalIds : \A source \in revals[v].wrote : source \in DOMAIN storedTm

(* -------------------------------- C32 --------------------------------- *)
\* C32: when a segment of a run sets the status of a file to done, the
\* results stored under the file's name are the items of the file, one per
\* row read from it and in that order, each done or cached.
C32_DoneFileStored ==
    [][\A id \in RunIds :
          RunStep(id) =>
             \A k \in 1..Len(fileQueue) :
                (fileQueue[k].status # "done" /\ fileQueue'[k].status = "done")
                => LET name == fileQueue[k].name
                       stored == StoredItems(fileResults', name)
                   IN /\ name \in DOMAIN fileResults'
                      /\ Ids(stored) = Ids(Materialize(name))
                      /\ \A j \in 1..Len(stored) : IsComplete(stored[j])]_vars

(* -------------------------------- C33 --------------------------------- *)
\* The scheduling of a run, as WF_vars(RunStep(id)) and
\* SF_vars(CallReturns(id, Answers \ {"rate"})) written out: every read,
\* call and timer that a run awaits settles, and a call that is issued again
\* and again is at last answered otherwise than by a rate limit.  A run
\* awaits something exactly where its position is one of the four named.
Fairness ==
    \A id \in 1..MaxRuns :
       /\ \/ []<>(~(id \in RunIds /\ runs[id].pc \in {"meta", "call", "delay", "cooldown"}))
          \/ []<><<id \in RunIds /\ RunStep(id)>>_vars
       /\ \/ <>[](~(id \in RunIds /\ runs[id].pc = "call"))
          \/ []<><<id \in RunIds /\ CallReturns(id, Answers \ {"rate"})>>_vars

LiveSpec == Spec /\ Fairness

\* C33: every run that was started returns, with isProcessing false; and
\* when a run that was never asked to stop returns, every file that its
\* queue showed not done and that is still queued is shown done or error.
C33_RunTerminates ==
    /\ \A id \in 1..MaxRuns :
          (id \in RunIds /\ runs[id].pc \notin {"idle", "done"})
             ~> (id \in RunIds /\ runs[id].pc = "done" /\ ~isProcessing)
    /\ [][\A id \in RunIds :
            (Ends(id) /\ ~runs'[id].stopRequested) =>
               \A k \in 1..Len(runs[id].q) :
                  LET entries == {j \in 1..Len(fileQueue') :
                                    fileQueue'[j].name = runs[id].q[k].name}
                  IN (runs[id].q[k].status # "done" /\ entries # {}) =>
                        \E j \in entries :
                           fileQueue'[j].status \in {"done", "error"}]_vars

(* -------------------------------- C34 --------------------------------- *)
\* C34: a segment of a run at file F leaves the target, the status and the
\* confidence of every item of F that was done or cached in the list the
\* run read for F, and is done or cached before the segment, as they are,
\* in the displayed list and in the stored results of F.
C34_CompleteItemsUntouched ==
    [][\A id \in RunIds :
          RunStep(id) =>
             LET name == FileName(runs[id])
                 read == runs[id].items
                 Same(a, b) == /\ a.target = b.target
                               /\ a.status = b.status
                               /\ a.confidence = b.confidence
                 Kept(old, new) ==
                    \A x \in 1..Len(read) : \A j \in ItemsOf(old, name) :
                       \A k \in ItemsOf(new, name) :
                          (/\ IsComplete(read[x])
                           /\ old[j].id = read[x].id
                           /\ IsComplete(old[j])
                           /\ new[k].id = old[j].id)
                          => Same(old[j], new[k])
             IN /\ Kept(currentItems, currentItems')
                /\ Kept(StoredItems(fileResults, name),
                        StoredItems(fileResults', name))]_vars

====
